---- MODULE Spec2Model ----
(***************************************************************************)
(* Model of quickjs-go's Context (context.go): the eval / compile /        *)
(* bytecode / module pipeline, the Function / AsyncFunction reverse-call   *)
(* bridge with its handle registry and job queue, the cached Values of a   *)
(* Context, and the runtime's interrupt handler.                           *)
(*                                                                         *)
(* The scripting engine is an opaque reference-counted ABI: a script is    *)
(* represented by what the engine does with it (its behaviour), and every  *)
(* engine primitive by its effect on the values it hands out and consumes. *)
(***************************************************************************)
EXTENDS Integers, Sequences, FiniteSets, TLC

VARIABLES
    \* ---- eval / compile pipeline ----
    pendingExc,  \* the context's pending engine exception ("none" if absent)
    last,        \* ledger of the most recent pipeline operation
    \* ---- reverse-call bridge ----
    closed,      \* closed[c]: Close has been called on context c
    cache,       \* cache[c][slot]: the cached *Value (NilRef, or its engine reference)
    acquired,    \* acquired[c][slot]: engine acquisitions made for the slot
    freed,       \* freed[c][slot]: Free calls made on the slot's Value
    handles,     \* cgo handle registry: set of [token, kind, obj, reg]
    handleIdx,   \* cgo's handle counter
    regs,        \* wrappers returned by Function/AsyncFunction, by registration
    lastCall,    \* record of the most recent wrapper call from script
    acalls,      \* calls of async wrappers: promise, wrapper and awaiter state
    jobs,        \* the engine's pending-job queue
    hung,        \* the host is stuck inside js_std_await
    \* ---- interrupt hook ----
    rtHandler,   \* the handler token registered with the runtime (0 = none)
    lastSet,     \* the handler passed to the most recent SetInterruptHandler
    run          \* the Eval call in progress, if any

vars == <<pendingExc, last, closed, cache, acquired, freed,
          handles, handleIdx, regs, lastCall, acalls, jobs, hung,
          rtHandler, lastSet, run>>

pipeVars   == <<pendingExc, last>>
bridgeVars == <<closed, cache, acquired, freed, handles, handleIdx,
                regs, lastCall, acalls, jobs, hung>>
intrVars   == <<rtHandler, lastSet, run>>

(***************************************************************************)
(* Bounds                                                                  *)
(***************************************************************************)
MaxOpts == 1       \* options a caller passes to one call
MaxRegs == 2       \* Function/AsyncFunction registrations
MaxCalls == 1      \* calls of async wrappers
MaxSets == 3       \* SetInterruptHandler calls
MaxPolls == 2      \* polls of the interrupt handler during one Eval

(***************************************************************************)
(* Values, errors, sources                                                 *)
(***************************************************************************)
\* A Value: its tag, the engine reference it owns (0: not reference-counted)
\* and, for a promise object, the promise's state.
Val(tag, id, p) == [tag |-> tag, id |-> id, p |-> p]
ExceptionVal == Val("exception", 0, "none")
NullVal == Val("null", 0, "none")
IsException(v) == v.tag = "exception"

NilErr == [kind |-> "nil", what |-> ""]
ExcErr(what) == [kind |-> "exception", what |-> what]
ShapeErr(msg) == [kind |-> "shape", what |-> msg]
IoErr(path) == [kind |-> "io", what |-> path]

\* What the engine does with a source text: whether JS_DetectModule finds
\* module syntax in it, and how parsing / running it ends.
Behaviours == {"syntax", "int", "object", "throw", "fulfilled", "rejected", "unresolved"}
Sources == [detect : BOOLEAN, beh : Behaviours]

\* The files of the host: three readable ones and one that cannot be read.
Paths == {"mod.js", "plain.js", "bad.js", "gone.js"}
ModuleNames == {"", "m"}

(***************************************************************************)
(* The engine, as seen by one operation: the context's pending exception   *)
(* and the operation's ledger of reference-counted values (the references  *)
(* it obtained, and every release made of one of them).                    *)
(***************************************************************************)
Machine(pending) == [pending |-> pending, obtained |-> {}, released |-> <<>>, nid |-> 1]

\* The engine hands out a fresh reference (m.nid).
Obtain(m) == [m EXCEPT !.obtained = @ \cup {m.nid}, !.nid = @ + 1]

\* JS_FreeValue: one release of v's reference (nothing for an immediate value).
JS_FreeValue(m, v) == IF v.id = 0 THEN m ELSE [m EXCEPT !.released = Append(@, v.id)]

\* The engine throws: the exception becomes the context's pending exception.
JS_Throw(m, what) == [m EXCEPT !.pending = what]

\* The engine runs a compiled unit of the given behaviour ("interrupted": the
\* interrupt handler made the engine abort the run with an internal error).
RunUnit(m, beh, asModule) ==
    CASE beh = "int" -> [m |-> m, v |-> Val("int", 0, "none")]
      [] beh = "object" -> [m |-> Obtain(m), v |-> Val("object", m.nid, "none")]
      [] beh = "throw" -> [m |-> JS_Throw(m, "Error"), v |-> ExceptionVal]
      [] beh \in {"fulfilled", "rejected"} -> [m |-> Obtain(m), v |-> Val("object", m.nid, beh)]
      [] beh = "unresolved" ->
            IF asModule THEN [m |-> JS_Throw(m, "ReferenceError"), v |-> ExceptionVal]
                        ELSE [m |-> m, v |-> Val("int", 0, "none")]
      [] beh = "interrupted" -> [m |-> JS_Throw(m, "InternalError"), v |-> ExceptionVal]
      [] OTHER -> [m |-> JS_Throw(m, "SyntaxError"), v |-> ExceptionVal]

\* JS_Eval: parse, then compile only or run. The unit is a module exactly
\* when the flags say so.
JS_Eval(m, code, cFlag) ==
    IF code.beh = "syntax" THEN [m |-> JS_Throw(m, "SyntaxError"), v |-> ExceptionVal]
    ELSE IF "COMPILE_ONLY" \in cFlag
         THEN [m |-> Obtain(m),
               v |-> Val(IF "MODULE" \in cFlag THEN "module" ELSE "bytecode", m.nid, "none")]
         ELSE RunUnit(m, code.beh, "MODULE" \in cFlag)

JS_DetectModule(code) == code.detect

\* js_std_await: runs pending jobs until a promise settles; consumes the
\* promise and returns its result, or throws its rejection; anything that is
\* not a promise is returned as it is.
js_std_await(m, v) ==
    CASE v.p = "fulfilled" ->
            LET m1 == JS_FreeValue(m, v)
            IN  [m |-> Obtain(m1), v |-> Val("object", m1.nid, "none")]
      [] v.p = "rejected" -> [m |-> JS_Throw(JS_FreeValue(m, v), "Rejected"), v |-> ExceptionVal]
      [] OTHER -> [m |-> m, v |-> v]

\* Value.Error: the host error made from a fetched exception value.
ValueError(what) == ExcErr(what)

(***************************************************************************)
(* Exception bridge (Context.Exception)                                    *)
(***************************************************************************)
Exception(m) ==
    IF m.pending = "none" THEN [m |-> m, err |-> NilErr]
    ELSE LET m1 == Obtain([m EXCEPT !.pending = "none"])   \* JS_GetException
             val == Val("object", m.nid, "none")
         IN  [m |-> JS_FreeValue(m1, val),                 \* defer val.Free()
              err |-> ValueError(m.pending)]

(***************************************************************************)
(* EvalOptions and the functional options                                  *)
(***************************************************************************)
Opt(name, b, s) == [name |-> name, b |-> b, s |-> s]
EvalFlagGlobal(global) == Opt("Global", global, "")
EvalFlagModule(module) == Opt("Module", module, "")
EvalFlagStrict(strict) == Opt("Strict", strict, "")
EvalFlagStrip(strip) == Opt("Strip", strip, "")
EvalFlagCompileOnly(compileOnly) == Opt("CompileOnly", compileOnly, "")
EvalFileName(filename) == Opt("FileName", FALSE, filename)
EvalAwait(await) == Opt("Await", await, "")

\* The zero value of EvalOptions.
EvalOptions == [js_eval_type_global |-> FALSE, js_eval_type_module |-> FALSE,
                js_eval_flag_strict |-> FALSE, js_eval_flag_strip |-> FALSE,
                js_eval_flag_compile_only |-> FALSE, filename |-> "", await |-> FALSE]

\* fn(&options) for one option.
ApplyOpt(options, fn) ==
    CASE fn.name = "Global" -> [options EXCEPT !.js_eval_type_global = fn.b]
      [] fn.name = "Module" -> [options EXCEPT !.js_eval_type_module = fn.b]
      [] fn.name = "Strict" -> [options EXCEPT !.js_eval_flag_strict = fn.b]
      [] fn.name = "Strip" -> [options EXCEPT !.js_eval_flag_strip = fn.b]
      [] fn.name = "CompileOnly" -> [options EXCEPT !.js_eval_flag_compile_only = fn.b]
      [] fn.name = "FileName" -> [options EXCEPT !.filename = fn.s]
      [] fn.name = "Await" -> [options EXCEPT !.await = fn.b]

\* for _, fn := range opts { fn(&options) }
RECURSIVE ApplyOpts(_, _)
ApplyOpts(options, opts) ==
    IF opts = <<>> THEN options
    ELSE ApplyOpts(ApplyOpt(options, Head(opts)), Tail(opts))

(***************************************************************************)
(* Result of one operation: the engine afterwards (m), the returned Value  *)
(* or bytes, the returned error, and what was handed to JS_Eval.           *)
(***************************************************************************)
NoBytes == [kind |-> "none", beh |-> "int"]
Buffers == [kind : {"garbage", "script", "module"}, beh : Behaviours \ {"syntax"}]
NoFlags == {}

Res(m, ret, bytes, err, cFlag, filename, evaluated, first, detect) ==
    [m |-> m, ret |-> ret, bytes |-> bytes, err |-> err, cFlag |-> cFlag,
     filename |-> filename, evaluated |-> evaluated, first |-> first, detect |-> detect]

\* The flag word Eval builds from the options and the module detection.
EvalCFlag(options, code) ==
    (IF options.js_eval_type_global THEN {"GLOBAL"} ELSE {})
    \cup (IF options.js_eval_type_module THEN {"MODULE"} ELSE {})
    \cup (IF options.js_eval_flag_strict THEN {"STRICT"} ELSE {})
    \cup (IF options.js_eval_flag_strip THEN {"STRIP"} ELSE {})
    \cup (IF options.js_eval_flag_compile_only THEN {"COMPILE_ONLY"} ELSE {})
    \cup (IF JS_DetectModule(code) THEN {"MODULE"} ELSE {})

\* Eval with the exception check made on the immediate result only.
EvalCheckingBeforeAwait(m, code, opts) ==
    LET options == ApplyOpts([EvalOptions EXCEPT !.js_eval_type_global = TRUE,
                                                 !.filename = "<input>",
                                                 !.await = FALSE], opts)
        cFlag == EvalCFlag(options, code)
        e == JS_Eval(m, code, cFlag)
        r == IF options.await THEN js_std_await(e.m, e.v) ELSE e
    IN  IF IsException(e.v)
        THEN LET x == Exception(r.m)
             IN  Res(x.m, r.v, NoBytes, x.err, cFlag, options.filename, TRUE, e.v, code.detect)
        ELSE Res(r.m, r.v, NoBytes, NilErr, cFlag, options.filename, TRUE, e.v, code.detect)

Eval(m, code, opts) ==
    LET options == ApplyOpts([EvalOptions EXCEPT !.js_eval_type_global = TRUE,
                                                 !.filename = "<input>",
                                                 !.await = FALSE], opts)
        cFlag == EvalCFlag(options, code)
        e == JS_Eval(m, code, cFlag)
        r == IF options.await THEN js_std_await(e.m, e.v) ELSE e
    IN  IF IsException(r.v)
        THEN LET x == Exception(r.m)
             IN  Res(x.m, r.v, NoBytes, x.err, cFlag, options.filename, TRUE, e.v, code.detect)
        ELSE Res(r.m, r.v, NoBytes, NilErr, cFlag, options.filename, TRUE, e.v, code.detect)

\* os.ReadFile
ReadFile(filePath) ==
    CASE filePath = "mod.js" -> [err |-> NilErr, b |-> [detect |-> TRUE, beh |-> "object"]]
      [] filePath = "plain.js" -> [err |-> NilErr, b |-> [detect |-> FALSE, beh |-> "int"]]
      [] filePath = "bad.js" -> [err |-> NilErr, b |-> [detect |-> FALSE, beh |-> "syntax"]]
      [] OTHER -> [err |-> IoErr(filePath), b |-> [detect |-> FALSE, beh |-> "syntax"]]

\* The result of an operation that failed before reaching the engine.
Early(m, ret, err) == Res(m, ret, NoBytes, err, NoFlags, "", FALSE, NullVal, FALSE)

\* EvalFile with the path as a default the caller's options override.
EvalFileDefaultingName(m, filePath, opts) ==
    LET f == ReadFile(filePath)
    IN  IF f.err # NilErr THEN Early(m, NullVal, f.err)
        ELSE Eval(m, f.b, <<EvalFileName(filePath)>> \o opts)

EvalFile(m, filePath, opts) ==
    LET f == ReadFile(filePath)
    IN  IF f.err # NilErr THEN Early(m, NullVal, f.err)
        ELSE Eval(m, f.b, Append(opts, EvalFileName(filePath)))

JS_ResolveModule(code) == IF code.beh = "unresolved" THEN -1 ELSE 0

LoadModule(m, code, moduleName) ==
    LET cFlag == {"MODULE", "COMPILE_ONLY"}
        e == JS_Eval(m, code, cFlag)
        out(m1, ret, err) == Res(m1, ret, NoBytes, err, cFlag, moduleName, TRUE, e.v, code.detect)
    IN  IF e.v.tag # "module" THEN out(e.m, NullVal, ShapeErr("not a module"))
        ELSE IF JS_ResolveModule(code) # 0
        THEN out(JS_FreeValue(JS_Throw(e.m, "ReferenceError"), e.v), NullVal,
                 ShapeErr("resolve module failed"))
        ELSE LET a == js_std_await(e.m, e.v)
             IN  out(a.m, a.v, NilErr)

LoadModuleFile(m, filePath, moduleName) ==
    LET f == ReadFile(filePath)
    IN  IF f.err # NilErr THEN Early(m, NullVal, f.err)
        ELSE LoadModule(m, f.b, moduleName)

\* JS_ReadObject with JS_READ_OBJ_BYTECODE: the unit the buffer was written
\* from, or an exception for bytes that are no bytecode.
JS_ReadObject(m, buf) ==
    CASE buf.kind = "module" -> [m |-> Obtain(m), v |-> Val("module", m.nid, "none")]
      [] buf.kind = "script" -> [m |-> Obtain(m), v |-> Val("bytecode", m.nid, "none")]
      [] OTHER -> [m |-> JS_Throw(m, "SyntaxError"), v |-> ExceptionVal]

\* JS_EvalFunction consumes the unit and runs it.
JS_EvalFunction(m, obj, beh) == RunUnit(JS_FreeValue(m, obj), beh, obj.tag = "module")

LoadModuleBytecode(m, buf) ==
    LET e == JS_ReadObject(m, buf)
        code == [detect |-> FALSE, beh |-> buf.beh]
        out(m1, ret, err) == Res(m1, ret, NoBytes, err, NoFlags, "", FALSE, e.v, FALSE)
    IN  IF IsException(e.v)
        THEN LET x == Exception(e.m) IN out(x.m, NullVal, x.err)
        ELSE IF e.v.tag # "module" THEN out(e.m, NullVal, ShapeErr("not a module"))
        ELSE IF JS_ResolveModule(code) # 0
        THEN out(JS_FreeValue(JS_Throw(e.m, "ReferenceError"), e.v), NullVal,
                 ShapeErr("resolve module failed"))
        ELSE LET a == js_std_await(e.m, e.v)
             IN  out(a.m, a.v, NilErr)

EvalBytecode(m, buf) ==
    LET e == JS_ReadObject(m, buf)
        out(m1, ret, err) == Res(m1, ret, NoBytes, err, NoFlags, "", FALSE, e.v, FALSE)
    IN  IF IsException(e.v)
        THEN LET x == Exception(e.m) IN out(x.m, e.v, x.err)
        ELSE LET val == JS_EvalFunction(e.m, e.v, buf.beh)
             IN  IF IsException(val.v)
                 THEN LET x == Exception(val.m) IN out(x.m, val.v, x.err)
                 ELSE out(val.m, val.v, NilErr)

\* JS_WriteObject with JS_WRITE_OBJ_BYTECODE: the serialised unit.
JS_WriteObject(val, code) ==
    [kind |-> IF val.tag = "module" THEN "module" ELSE "script", beh |-> code.beh]

\* writeFails: the engine's writer fails (size <= 0), leaving an exception.
Compile(m, code, opts, writeFails) ==
    LET r == Eval(m, code, Append(opts, EvalFlagCompileOnly(TRUE)))
    IN  IF r.err # NilErr THEN [r EXCEPT !.ret = NullVal]
        ELSE IF writeFails
        THEN LET x == Exception(JS_Throw(r.m, "InternalError"))
             IN  [r EXCEPT !.m = JS_FreeValue(x.m, r.ret), !.ret = NullVal, !.err = x.err]
        ELSE [r EXCEPT !.m = JS_FreeValue(r.m, r.ret), !.ret = NullVal,
                       !.bytes = JS_WriteObject(r.ret, code)]

CompileFile(m, filePath, opts, writeFails) ==
    LET f == ReadFile(filePath)
        options == ApplyOpts(EvalOptions, opts)
    IN  IF f.err # NilErr THEN Early(m, NullVal, f.err)
        ELSE Compile(m, f.b,
                     IF options.filename = "" THEN Append(opts, EvalFileName(filePath)) ELSE opts,
                     writeFails)

CompileModule(m, filePath, moduleName, opts, writeFails) ==
    CompileFile(m, filePath, Append(opts, EvalFileName(moduleName)), writeFails)

(***************************************************************************)
(* The host's calls of the pipeline: one action per exported operation.    *)
(* Each call starts from the context's pending exception and leaves its    *)
(* ledger in `last`.                                                       *)
(***************************************************************************)
OptSet == {EvalFileName("u.js"), EvalFileName(""), EvalFlagModule(TRUE), EvalFlagModule(FALSE),
           EvalAwait(TRUE), EvalFlagCompileOnly(TRUE)}
OptSeqs == UNION {[1..n -> OptSet] : n \in 0..MaxOpts}

NoFileName == "<none>"

\* The filename option the caller supplied (the last one wins), if any.
RECURSIVE CallerFile(_)
CallerFile(opts) ==
    IF opts = <<>> THEN NoFileName
    ELSE IF opts[Len(opts)].name = "FileName" THEN opts[Len(opts)].s
    ELSE CallerFile(SubSeq(opts, 1, Len(opts) - 1))

Ledger(op, path, name, opts, r) ==
    [op |-> op, path |-> path, name |-> name, callerFile |-> CallerFile(opts),
     ret |-> r.ret, bytes |-> r.bytes, err |-> r.err, cFlag |-> r.cFlag,
     filename |-> r.filename, evaluated |-> r.evaluated, first |-> r.first,
     detect |-> r.detect, obtained |-> r.m.obtained, released |-> r.m.released]

NoOp == Ledger("none", "", "", <<>>, Early(Machine("none"), NullVal, NilErr))

Commit(op, path, name, opts, r) ==
    /\ last' = Ledger(op, path, name, opts, r)
    /\ pendingExc' = r.m.pending
    /\ UNCHANGED <<bridgeVars, intrVars>>

CallEval ==
    \E code \in Sources, opts \in OptSeqs :
        Commit("Eval", "", "", opts, Eval(Machine(pendingExc), code, opts))

CallEvalFile ==
    \E filePath \in Paths, opts \in OptSeqs :
        Commit("EvalFile", filePath, "", opts, EvalFile(Machine(pendingExc), filePath, opts))

CallLoadModule ==
    \E code \in Sources, moduleName \in ModuleNames :
        Commit("LoadModule", "", moduleName, <<>>,
               LoadModule(Machine(pendingExc), code, moduleName))

CallLoadModuleFile ==
    \E filePath \in Paths, moduleName \in ModuleNames :
        Commit("LoadModuleFile", filePath, moduleName, <<>>,
               LoadModuleFile(Machine(pendingExc), filePath, moduleName))

CallCompileModule ==
    \E filePath \in Paths, moduleName \in ModuleNames, opts \in OptSeqs, writeFails \in BOOLEAN :
        Commit("CompileModule", filePath, moduleName, opts,
               CompileModule(Machine(pendingExc), filePath, moduleName, opts, writeFails))

CallLoadModuleBytecode ==
    \E buf \in Buffers :
        Commit("LoadModuleBytecode", "", "", <<>>, LoadModuleBytecode(Machine(pendingExc), buf))

CallEvalBytecode ==
    \E buf \in Buffers :
        Commit("EvalBytecode", "", "", <<>>, EvalBytecode(Machine(pendingExc), buf))

CallCompile ==
    \E code \in Sources, opts \in OptSeqs, writeFails \in BOOLEAN :
        Commit("Compile", "", "", opts, Compile(Machine(pendingExc), code, opts, writeFails))

CallCompileFile ==
    \E filePath \in Paths, opts \in OptSeqs, writeFails \in BOOLEAN :
        Commit("CompileFile", filePath, "", opts,
               CompileFile(Machine(pendingExc), filePath, opts, writeFails))

NextPipeline ==
    \/ CallEval
    \/ CallEvalFile
    \/ CallLoadModule
    \/ CallLoadModuleFile
    \/ CallCompileModule
    \/ CallLoadModuleBytecode
    \/ CallEvalBytecode
    \/ CallCompile
    \/ CallCompileFile

(***************************************************************************)
(* Contexts, cached Values and the handle registry                         *)
(***************************************************************************)
Ctxs == {1, 2}
Slots == {"globals", "proxy", "asyncProxy"}

\* this / arguments / return values used by calls from script
Thisses == {"t"}
ArgLists == {<<>>, <<"a">>}
Vals == {"v7", "v9"}
Returns == {"v7", "exc"}
ThrownVal == "exc"
Panic == [by |-> 0, v |-> "panic"]

\* cgo.NewHandle: the next token of the process-wide counter, stored with
\* the value it stands for. reg records the registration it was made for.
NewHandle(hs, idx, kind, obj, reg) ==
    [handles |-> hs \cup {[token |-> idx + 1, kind |-> kind, obj |-> obj, reg |-> reg]},
     idx |-> idx + 1]

\* cgo.Handle(id).Value(): the registry entries under a token.
HandleValue(hs, token) == {h \in hs : h.token = token}

\* Context.Int64 (JS_NewInt64) and the shim's JS_ToInt64 back.
Int64(v) ==
    [tag |-> IF v >= -2147483647 - 1 /\ v <= 2147483647 THEN "int" ELSE "float64", num |-> v]
JS_ToInt64(val) == val.num

\* Engine references: the n-th reference acquired for a slot of context c,
\* and the reference of a constructor looked up on the global object.
NilRef == <<>>
SlotRef(c, slot, n) == <<c, slot, n>>
CtorRef(c, name) == <<c, name, 0>>

\* Lazy creation of a cached Value: acquired from the engine when nil.
Lazy(c, slot) ==
    IF cache[c][slot] = NilRef
    THEN /\ cache' = [cache EXCEPT ![c][slot] = SlotRef(c, slot, acquired[c][slot] + 1)]
         /\ acquired' = [acquired EXCEPT ![c][slot] = @ + 1]
    ELSE UNCHANGED <<cache, acquired>>

\* Value.Free on reference ref: counted when it hits a cached Value of c.
FreeRef(fr, ch, c, ref) ==
    [fr EXCEPT ![c] = [s \in Slots |-> IF ref # NilRef /\ ch[c][s] = ref THEN @[s] + 1 ELSE @[s]]]

Call(op, c, reg, this, args, invoked, result, ref) ==
    [op |-> op, ctx |-> c, reg |-> reg, this |-> this, args |-> args,
     invoked |-> invoked, result |-> result, ref |-> ref]
NoCall == Call("none", 0, 0, "", <<>>, <<>>, Panic, NilRef)

Alive(c) == ~closed[c] /\ ~hung

Globals(c) ==
    /\ Alive(c)
    /\ Lazy(c, "globals")
    /\ lastCall' = Call("Globals", c, 0, "", <<>>, <<>>, Panic, cache'[c].globals)
    /\ UNCHANGED <<closed, freed, handles, handleIdx, regs, acalls, jobs, hung,
                   pipeVars, intrVars>>

\* Map and Set: ctor := ctx.Globals().Get(name); defer ctor.Free(). The
\* constructor is a reference of its own, released before returning.
NewCollection(c, name) ==
    /\ Alive(c)
    /\ Lazy(c, "globals")
    /\ freed' = FreeRef(freed, cache', c, CtorRef(c, name))
    /\ lastCall' = Call(name, c, 0, "", <<>>, <<>>, Panic, cache'[c].globals)
    /\ UNCHANGED <<closed, handles, handleIdx, regs, acalls, jobs, hung,
                   pipeVars, intrVars>>

Map(c) == NewCollection(c, "Map")
Set(c) == NewCollection(c, "Set")

CloseLeakingAsyncProxy(c) ==
    /\ ~closed[c] /\ ~hung
    /\ freed' = FreeRef(FreeRef(freed, cache, c, cache[c].proxy), cache, c, cache[c].globals)
    /\ closed' = [closed EXCEPT ![c] = TRUE]
    /\ lastCall' = Call("Close", c, 0, "", <<>>, <<>>, Panic, NilRef)
    /\ UNCHANGED <<cache, acquired, handles, handleIdx, regs, acalls, jobs, hung,
                   pipeVars, intrVars>>

CloseRevokingHandles(c) ==
    /\ ~closed[c] /\ ~hung
    /\ freed' = FreeRef(FreeRef(FreeRef(freed, cache, c, cache[c].proxy),
                                cache, c, cache[c].asyncProxy),
                        cache, c, cache[c].globals)
    /\ closed' = [closed EXCEPT ![c] = TRUE]
    /\ handles' = {h \in handles : ~(h.kind = "ctx" /\ h.obj = c)}
    /\ lastCall' = Call("Close", c, 0, "", <<>>, <<>>, Panic, NilRef)
    /\ UNCHANGED <<cache, acquired, handleIdx, regs, acalls, jobs, hung,
                   pipeVars, intrVars>>

\* Close frees each cached Value that is not nil, then the context.
Close(c) ==
    /\ ~closed[c] /\ ~hung
    /\ freed' = FreeRef(FreeRef(FreeRef(freed, cache, c, cache[c].proxy),
                                cache, c, cache[c].asyncProxy),
                        cache, c, cache[c].globals)
    /\ closed' = [closed EXCEPT ![c] = TRUE]                \* JS_FreeContext
    /\ lastCall' = Call("Close", c, 0, "", <<>>, <<>>, Panic, NilRef)
    /\ UNCHANGED <<cache, acquired, handles, handleIdx, regs, acalls, jobs, hung,
                   pipeVars, intrVars>>

(***************************************************************************)
(* Function: registration of a host closure, and calls of its wrapper      *)
(***************************************************************************)
\* The source Function and AsyncFunction evaluate: an arrow function, unless
\* the engine fails to evaluate it.
WrapperSource(evalFails) == [detect |-> FALSE, beh |-> IF evalFails THEN "throw" ELSE "object"]

\* (proxy, fnHandler, ctx) => function() {...}, called with args: the wrapper
\* closing over the three arguments.
WrapperOf(kind, args) ==
    [kind |-> kind, proxy |-> args[1], fnHandler |-> args[2], ctx |-> args[3]]
NoWrapper == [kind |-> "none", proxy |-> [ref |-> NilRef, native |-> ""],
              fnHandler |-> Int64(0), ctx |-> Int64(0)]

\* One registration. fn: the closure registered (closures are numbered by
\* registration); panicked: the wrapper's Eval failed and the call panicked.
Registration(c, kind, fn, wrapper, panicked) ==
    [ctx |-> c, kind |-> kind, fn |-> fn, wrapper |-> wrapper, panicked |-> panicked]

\* args := []Value{*ctx.proxy, ctx.Int64(fnHandler), ctx.Int64(ctxHandler)}
SwappedArgs(proxy, fnHandler, ctxHandler) == <<proxy, ctxHandler, fnHandler>>
ProxyArgs(proxy, fnHandler, ctxHandler) == <<proxy, fnHandler, ctxHandler>>

Register(c, kind, slot, native, hkind, evalFails) ==
    /\ Alive(c)
    /\ Len(regs) < MaxRegs
    /\ Lazy(c, slot)
    /\ LET reg == Len(regs) + 1
           h1 == NewHandle(handles, handleIdx, hkind, reg, reg)
           h2 == NewHandle(h1.handles, h1.idx, "ctx", c, reg)
           fnHandler == Int64(h1.idx)
           ctxHandler == Int64(h2.idx)
           argv == ProxyArgs([ref |-> cache'[c][slot], native |-> native], fnHandler, ctxHandler)
           e == Eval(Machine("none"), WrapperSource(evalFails), <<>>)
       IN  /\ handles' = h2.handles
           /\ handleIdx' = h2.idx
           /\ regs' = Append(regs,
                             IF e.err # NilErr
                             THEN Registration(c, kind, reg, NoWrapper, TRUE)   \* panic(err)
                             ELSE Registration(c, kind, reg, WrapperOf(kind, argv), FALSE))
           /\ lastCall' = Call(kind, c, reg, "", <<>>, <<>>, Panic, NilRef)
    /\ UNCHANGED <<closed, freed, acalls, jobs, hung,
                   pipeVars, intrVars>>

Function(c, evalFails) ==
    Register(c, "Function", "proxy", "InvokeProxy", "fn", evalFails)

AsyncFunction(c, evalFails) ==
    Register(c, "AsyncFunction", "asyncProxy", "InvokeAsyncProxy", "asyncFn", evalFails)

\* The shim behind proxy.call(this, fnHandler, ctx, ...rest): resolves the two
\* handles and invokes the closure with (context, this, rest); returned is
\* what the closure returns. Without a closure and a context under the two
\* tokens the host panics.
InvokeShim(hkind, hs, this, argv, returned) ==
    LET fns == {h \in HandleValue(hs, JS_ToInt64(argv[1])) : h.kind = hkind}
        cxs == {h \in HandleValue(hs, JS_ToInt64(argv[2])) : h.kind = "ctx"}
    IN  IF Cardinality(fns) = 1 /\ Cardinality(cxs) = 1
        THEN LET f == CHOOSE h \in fns : TRUE
                 x == CHOOSE h \in cxs : TRUE
             IN  [invoked |-> <<[closure |-> f.obj, ctx |-> x.obj, this |-> this,
                                 args |-> SubSeq(argv, 3, Len(argv)),
                                 returned |-> [by |-> f.obj, v |-> returned]]>>,
                  result |-> [by |-> f.obj, v |-> returned]]
        ELSE [invoked |-> <<>>, result |-> Panic]

\* function() { return proxy.call(this, fnHandler, ctx, ...arguments); }
SyncWrapper(w, hs, this, arguments, returned) ==
    InvokeShim("fn", hs, this, <<w.fnHandler, w.ctx>> \o arguments, returned)

\* Script calls the wrapper of registration i.
ScriptCall(i, this, arguments, returned) ==
    /\ regs[i].kind = "Function" /\ ~regs[i].panicked
    /\ Alive(regs[i].ctx)
    /\ LET r == SyncWrapper(regs[i].wrapper, handles, this, arguments, returned)
       IN  lastCall' = Call("call", regs[i].ctx, i, this, arguments, r.invoked, r.result, NilRef)
    /\ UNCHANGED <<closed, cache, acquired, freed, handles, handleIdx, regs,
                   acalls, jobs, hung,
                   pipeVars, intrVars>>

(***************************************************************************)
(* AsyncFunction: calls of an async wrapper, the promise handed to the     *)
(* host closure, and the engine's job queue                                *)
(***************************************************************************)
\* One call of an async wrapper from a script expression `await f(...)`:
\*   inner   - the promise created by the wrapper and passed to the closure
\*   wstate  - the wrapper: awaiting inner, or done
\*   outer   - the promise the async wrapper returned to the script
\*   awaiter - the script expression awaiting the call
\* and the history the claims speak of: whether the closure threw, the first
\* resolve/reject call made on inner, and whether jobs were run since.
ACall(reg, threw) ==
    [reg |-> reg, threw |-> threw,
     inner |-> "pending", innerVal |-> "",
     wstate |-> "awaiting",
     outer |-> "pending", outerVal |-> "",
     awaiter |-> "pending", awaiterVal |-> "",
     settleCalled |-> FALSE, firstHow |-> "", firstVal |-> "",
     drained |-> FALSE, drainedAfterSettle |-> FALSE, awaited |-> FALSE]

Job(kind, k) == [kind |-> kind, call |-> k]

\* promise.resolve(v) / promise.reject(v): the first call settles the promise.
PromiseSettle(a, how, v) ==
    LET b == IF a.settleCalled THEN a
             ELSE [a EXCEPT !.settleCalled = TRUE, !.firstHow = how, !.firstVal = v]
    IN  IF a.inner = "pending" THEN [b EXCEPT !.inner = how, !.innerVal = v] ELSE b

\* What the host closure does when invoked: settle the promise at once,
\* leave it for later, or return an exception Value.
ClosureActs == {"later", "fulfilled", "rejected", "throw"}

AsyncWrapperNotAwaiting(k, i, w, hs, this, arguments, act, v) ==
    LET r == InvokeShim("asyncFn", hs, this, <<w.fnHandler, w.ctx, "promise">> \o arguments,
                        IF act = "throw" THEN ThrownVal ELSE "undefined")
        a0 == ACall(i, r.result.v \in {ThrownVal, "panic"})
        a1 == IF act \in {"fulfilled", "rejected"} /\ r.result # Panic
              THEN PromiseSettle(a0, act, v) ELSE a0
    IN  [a |-> [a1 EXCEPT !.wstate = "done", !.outer = "fulfilled", !.outerVal = "undefined"],
         jobs |-> <<Job("notify", k)>>, shim |-> r]

\* async function(...arguments) { ...new Promise...;
\*   proxy.call(this, fnHandler, ctx, promise, ...arguments); return await promise; }
\* called as the k-th async call, by a script expression that awaits it.
AsyncWrapper(k, i, w, hs, this, arguments, act, v) ==
    LET r == InvokeShim("asyncFn", hs, this, <<w.fnHandler, w.ctx, "promise">> \o arguments,
                        IF act = "throw" THEN ThrownVal ELSE "undefined")
        a0 == ACall(i, r.result.v \in {ThrownVal, "panic"})
        a1 == IF act \in {"fulfilled", "rejected"} /\ r.result # Panic
              THEN PromiseSettle(a0, act, v) ELSE a0
    IN  IF a0.threw
        THEN \* proxy.call threw: the async function rejects; the awaiting
             \* expression's reaction on the settled promise is queued
             [a |-> [a1 EXCEPT !.wstate = "done", !.outer = "rejected", !.outerVal = r.result.v],
              jobs |-> <<Job("notify", k)>>, shim |-> r]
        ELSE \* await promise: resumes in a job once the promise is settled
             [a |-> a1,
              jobs |-> IF a1.inner = "pending" THEN <<>> ELSE <<Job("resume", k)>>,
              shim |-> r]

\* Script evaluates `await f(...)` for the wrapper f of registration i.
ScriptCallAsync(i, this, arguments, act, v) ==
    /\ regs[i].kind = "AsyncFunction" /\ ~regs[i].panicked
    /\ Alive(regs[i].ctx)
    /\ Len(acalls) < MaxCalls
    /\ LET k == Len(acalls) + 1
           r == AsyncWrapper(k, i, regs[i].wrapper, handles, this, arguments, act, v)
       IN  /\ acalls' = Append(acalls, r.a)
           /\ jobs' = jobs \o r.jobs
           /\ lastCall' = Call("callAsync", regs[i].ctx, i, this, arguments,
                               r.shim.invoked, r.shim.result, NilRef)
    /\ UNCHANGED <<closed, cache, acquired, freed, handles, handleIdx, regs, hung,
                   pipeVars, intrVars>>

\* The host calls resolve or reject on the promise of call k, some time
\* after the closure was invoked.
HostSettle(k, how, v) ==
    /\ Alive(regs[acalls[k].reg].ctx)
    /\ acalls' = [acalls EXCEPT ![k] = PromiseSettle(@, how, v)]
    /\ jobs' = IF acalls[k].inner = "pending" /\ acalls[k].wstate = "awaiting"
               THEN Append(jobs, Job("resume", k)) ELSE jobs
    /\ lastCall' = Call("settle", regs[acalls[k].reg].ctx, acalls[k].reg, "", <<>>, <<>>,
                        Panic, NilRef)
    /\ UNCHANGED <<closed, cache, acquired, freed, handles, handleIdx, regs, hung,
                   pipeVars, intrVars>>

\* The engine runs one pending job; new holds the jobs this enqueues.
RunJob(ac, job) ==
    LET k == job.call
    IN  IF job.kind = "resume"
        THEN \* the wrapper resumes with the promise's outcome and returns or
             \* throws it: its own promise settles, which queues the awaiter
             [ac |-> [ac EXCEPT ![k].wstate = "done", ![k].outer = ac[k].inner,
                                ![k].outerVal = ac[k].innerVal],
              new |-> <<Job("notify", k)>>]
        ELSE [ac |-> [ac EXCEPT ![k].awaiter = ac[k].outer, ![k].awaiterVal = ac[k].outerVal],
              new |-> <<>>]

\* A drain ran jobs: noted on every call made, and on those already settled
\* by the host.
NoteDrain(old, ac) ==
    [k \in 1..Len(ac) |->
        [ac[k] EXCEPT !.drained = TRUE,
                      !.drainedAfterSettle = @ \/ old[k].settleCalled]]

\* js_std_loop: runs jobs until none is pending.
RECURSIVE DrainAll(_, _)
DrainAll(ac, q) ==
    IF q = <<>> THEN ac
    ELSE LET r == RunJob(ac, Head(q)) IN DrainAll(r.ac, Tail(q) \o r.new)

Loop(c) ==
    /\ Alive(c)
    /\ acalls' = IF jobs = <<>> THEN acalls ELSE NoteDrain(acalls, DrainAll(acalls, jobs))
    /\ jobs' = <<>>
    /\ lastCall' = Call("Loop", c, 0, "", <<>>, <<>>, Panic, NilRef)
    /\ UNCHANGED <<closed, cache, acquired, freed, handles, handleIdx, regs, hung,
                   pipeVars, intrVars>>

\* js_std_await on the promise of call k: runs one job at a time until the
\* promise is settled; with the promise pending and no job left it never
\* returns.
RECURSIVE AwaitLoop(_, _, _)
AwaitLoop(ac, q, k) ==
    IF ac[k].outer # "pending" THEN [ac |-> ac, q |-> q, hung |-> FALSE]
    ELSE IF q = <<>> THEN [ac |-> ac, q |-> q, hung |-> TRUE]
    ELSE LET r == RunJob(ac, Head(q)) IN AwaitLoop(r.ac, Tail(q) \o r.new, k)

\* Await(v) for v the promise an async wrapper call returned.
Await(k) ==
    /\ Alive(regs[acalls[k].reg].ctx)
    /\ ~acalls[k].awaited
    /\ LET r == AwaitLoop(acalls, jobs, k)
           ac == IF r.q = jobs THEN r.ac ELSE NoteDrain(acalls, r.ac)
       IN  /\ acalls' = [ac EXCEPT ![k].awaited = ~r.hung]
           /\ jobs' = r.q
           /\ hung' = r.hung
           /\ lastCall' = Call("Await", regs[acalls[k].reg].ctx, acalls[k].reg, "", <<>>, <<>>,
                               IF r.hung THEN Panic
                               ELSE [by |-> k, v |-> IF r.ac[k].outer = "rejected"
                                                     THEN "exception" ELSE r.ac[k].outerVal],
                               NilRef)
    /\ UNCHANGED <<closed, cache, acquired, freed, handles, handleIdx, regs,
                   pipeVars, intrVars>>

\* The async bridge is exercised on one context.
NextAsync ==
    \/ \E evalFails \in BOOLEAN : AsyncFunction(1, evalFails)
    \/ \E i \in 1..Len(regs), this \in Thisses, arguments \in ArgLists,
          act \in ClosureActs, v \in Vals : ScriptCallAsync(i, this, arguments, act, v)
    \/ \E k \in 1..Len(acalls), how \in {"fulfilled", "rejected"}, v \in Vals :
          HostSettle(k, how, v)
    \/ Loop(1)
    \/ \E k \in 1..Len(acalls) : Await(k)

NextBridge ==
    \/ \E c \in Ctxs : Globals(c)
    \/ \E c \in Ctxs : Map(c)
    \/ \E c \in Ctxs : Set(c)
    \/ \E c \in Ctxs : Close(c)
    \/ \E c \in Ctxs, evalFails \in BOOLEAN : Function(c, evalFails)
    \/ \E c \in Ctxs, evalFails \in BOOLEAN : AsyncFunction(c, evalFails)
    \/ \E i \in 1..Len(regs), this \in Thisses, arguments \in ArgLists,
          returned \in Returns : ScriptCall(i, this, arguments, returned)

(***************************************************************************)
(* Interrupt hook: the runtime's handler, and an Eval in progress          *)
(***************************************************************************)
NoSet == [ctx |-> 0, handler |-> 0]
Idle == [state |-> "idle", ctx |-> 0, loops |-> FALSE, await |-> FALSE, polls |-> 0,
         by |-> 0, ret |-> NullVal, err |-> NilErr]

\* C.SetInterruptHandler(rt, &handlerArgs): the runtime's single handler slot
\* takes the handle passed in.
RuntimeSetHandler(old, token) == token

\* The number of SetInterruptHandler calls made (each allocates one handle).
Sets == Cardinality({h \in handles : h.kind = "interrupt"})

SetInterruptHandlerKeepingFirst(c, handler) ==
    /\ ~closed[c] /\ ~hung
    /\ run.state \in {"idle", "running", "returned"}   \* host code is running
    /\ Sets < MaxSets
    /\ LET h == NewHandle(handles, handleIdx, "interrupt", handler, 0)
       IN  /\ handles' = h.handles
           /\ handleIdx' = h.idx
           /\ rtHandler' = IF rtHandler = 0 THEN RuntimeSetHandler(rtHandler, h.idx)
                                            ELSE rtHandler
    /\ lastSet' = [ctx |-> c, handler |-> handler]
    /\ UNCHANGED <<closed, cache, acquired, freed, regs, lastCall, acalls, jobs, hung,
                   run, pipeVars>>

\* handler: the host predicate passed in (predicates are numbered by call).
SetInterruptHandler(c, handler) ==
    /\ ~closed[c] /\ ~hung
    /\ run.state \in {"idle", "running", "returned"}   \* host code is running
    /\ Sets < MaxSets
    /\ LET h == NewHandle(handles, handleIdx, "interrupt", handler, 0)
       IN  /\ handles' = h.handles
           /\ handleIdx' = h.idx
           /\ rtHandler' = RuntimeSetHandler(rtHandler, h.idx)
    /\ lastSet' = [ctx |-> c, handler |-> handler]
    /\ UNCHANGED <<closed, cache, acquired, freed, regs, lastCall, acalls, jobs, hung,
                   run, pipeVars>>

\* The host calls Eval on context c: the engine starts running the script.
EvalStart(c, loops, await) ==
    /\ ~closed[c] /\ ~hung
    /\ run.state \in {"idle", "returned"}
    /\ run' = [Idle EXCEPT !.state = "running", !.ctx = c, !.loops = loops, !.await = await]
    /\ UNCHANGED <<rtHandler, lastSet, pipeVars, bridgeVars>>

\* The running engine polls the runtime's handler, which answers r; on a
\* non-zero answer the engine aborts the script with an exception.
EnginePoll(r) ==
    /\ run.state = "running"
    /\ rtHandler # 0
    /\ LET hs == HandleValue(handles, rtHandler)
       IN  /\ hs # {}
           /\ run' = IF r # 0
                     THEN [run EXCEPT !.state = "interrupted",
                                      !.by = (CHOOSE h \in hs : TRUE).obj]
                     ELSE [run EXCEPT !.polls = IF @ < MaxPolls THEN @ + 1 ELSE @]
    /\ UNCHANGED <<rtHandler, lastSet, pipeVars, bridgeVars>>

\* A script that does not loop runs to its end.
EngineFinish ==
    /\ run.state = "running"
    /\ ~run.loops
    /\ run' = [run EXCEPT !.state = "finished"]
    /\ UNCHANGED <<rtHandler, lastSet, pipeVars, bridgeVars>>

\* JS_Eval has come back: the rest of Eval runs and the call returns.
EvalReturn ==
    /\ run.state \in {"interrupted", "finished"}
    /\ LET code == [detect |-> FALSE,
                    beh |-> IF run.state = "interrupted" THEN "interrupted" ELSE "int"]
           r == Eval(Machine("none"), code, <<EvalAwait(run.await)>>)
       IN  run' = [run EXCEPT !.state = "returned", !.ret = r.ret, !.err = r.err]
    /\ UNCHANGED <<rtHandler, lastSet, pipeVars, bridgeVars>>

NextInterrupt ==
    \/ \E c \in Ctxs : SetInterruptHandler(c, Sets + 1)
    \/ \E c \in Ctxs, loops \in BOOLEAN, await \in BOOLEAN : EvalStart(c, loops, await)
    \/ \E r \in {0, 1} : EnginePoll(r)
    \/ EngineFinish
    \/ EvalReturn

InitPipeline ==
    /\ pendingExc = "none"
    /\ last = NoOp

InitBridge ==
    /\ closed = [c \in Ctxs |-> FALSE]
    /\ cache = [c \in Ctxs |-> [s \in Slots |-> NilRef]]
    /\ acquired = [c \in Ctxs |-> [s \in Slots |-> 0]]
    /\ freed = [c \in Ctxs |-> [s \in Slots |-> 0]]
    /\ handles = {}
    /\ handleIdx = 0
    /\ regs = <<>>
    /\ lastCall = NoCall
    /\ acalls = <<>>
    /\ jobs = <<>>
    /\ hung = FALSE

InitInterrupt ==
    /\ rtHandler = 0
    /\ lastSet = NoSet
    /\ run = Idle

Init == InitPipeline /\ InitBridge /\ InitInterrupt

SpecPipeline == Init /\ [][NextPipeline]_vars
SpecBridge == Init /\ [][NextBridge]_vars
SpecAsync == Init /\ [][NextAsync]_vars
\* The host thread keeps running once JS_Eval has come back.
SpecInterrupt == Init /\ [][NextInterrupt]_vars /\ WF_vars(EvalReturn)

(***************************************************************************)
(* Claims about the pipeline (checked under SpecPipeline)                  *)
(***************************************************************************)
\* How many times the operation released reference id.
Releases(id) == Cardinality({i \in 1..Len(last.released) : last.released[i] = id})

\* C1: Eval returns a non-nil error exactly when the Value it returns is
\* exception-tagged; on success the error is nil, and with an exception result
\* (after the optional await) the error is the one made from the pending
\* engine exception, which has been fetched.
C1_EvalErrorIffException ==
    last.op = "Eval" =>
        /\ (last.err # NilErr) <=> IsException(last.ret)
        /\ IsException(last.ret) => (last.err.kind = "exception" /\ pendingExc = "none")

\* C1 witness: an Eval whose promise result was awaited, was rejected, and
\* came back as an exception Value with an error.
C1_Witness ==
    /\ last.op = "Eval"
    /\ last.first.p = "rejected"
    /\ IsException(last.ret)
    /\ last.err = ExcErr("Rejected")

\* C4: in Eval, Compile, EvalBytecode, LoadModule and LoadModuleBytecode every
\* reference the operation obtained is either the returned Value's (and was
\* not released) or was released exactly once, and nothing else was released.
C4_EveryReferenceReleasedOnce ==
    last.op \in {"Eval", "Compile", "EvalBytecode", "LoadModule", "LoadModuleBytecode"} =>
        /\ \A id \in last.obtained :
              IF id = last.ret.id THEN Releases(id) = 0 ELSE Releases(id) = 1
        /\ \A i \in 1..Len(last.released) : last.released[i] \in last.obtained

\* C5: in LoadModule and LoadModuleBytecode an exception-tagged parse or
\* deserialise result ends the operation with the error of the exception
\* bridge, the pending exception fetched and cleared; "not a module" is
\* returned only for a value produced without exception whose tag is not
\* module; no exception result is returned with a nil error.
C5_ExceptionShortCircuits ==
    last.op \in {"LoadModule", "LoadModuleBytecode"} =>
        /\ IsException(last.first) => (last.err.kind = "exception" /\ pendingExc = "none")
        /\ last.err = ShapeErr("not a module") =>
              (~IsException(last.first) /\ last.first.tag # "module")
        /\ ~(IsException(last.ret) /\ last.err = NilErr)

\* C7: the engine is asked for a module whenever module syntax is detected in
\* the source, whatever type was requested, and whenever the operation is
\* LoadModule, LoadModuleFile or CompileModule, whatever the source holds; a
\* buffer CompileModule produced passes LoadModuleBytecode's module tag check.
C7_ModuleForced ==
    /\ (last.evaluated /\ last.detect) => "MODULE" \in last.cFlag
    /\ (last.evaluated /\ last.op \in {"LoadModule", "LoadModuleFile", "CompileModule"}) =>
          "MODULE" \in last.cFlag
    /\ (last.op = "CompileModule" /\ last.bytes # NoBytes) =>
          JS_ReadObject(Machine("none"), last.bytes).v.tag = "module"

\* C10 as stated: with a readable file, EvalFile, CompileFile and
\* CompileModule pass the path as filename when the caller gave no filename
\* option and keep the caller's filename option otherwise; an unreadable file
\* returns the read error and evaluates nothing.
C10_FilenameDefaultsToPath ==
    last.op \in {"EvalFile", "CompileFile", "CompileModule"} =>
        IF ReadFile(last.path).err = NilErr
        THEN last.filename = (IF last.callerFile = NoFileName THEN last.path
                                                              ELSE last.callerFile)
        ELSE last.err = ReadFile(last.path).err /\ ~last.evaluated

\* C10 amended: EvalFile always passes the path; CompileFile passes the
\* caller's filename option when it is non-empty and the path otherwise;
\* CompileModule passes moduleName when it is non-empty and the path
\* otherwise; an unreadable file returns the read error and evaluates nothing.
C10_FilenameAsCoded ==
    last.op \in {"EvalFile", "CompileFile", "CompileModule"} =>
        IF ReadFile(last.path).err = NilErr
        THEN /\ last.evaluated
             /\ last.op = "EvalFile" => last.filename = last.path
             /\ last.op = "CompileFile" =>
                   last.filename = (IF last.callerFile \in {NoFileName, ""}
                                    THEN last.path ELSE last.callerFile)
             /\ last.op = "CompileModule" =>
                   last.filename = (IF last.name = "" THEN last.path ELSE last.name)
        ELSE last.err = ReadFile(last.path).err /\ ~last.evaluated

\* C10 witness: EvalFile of a readable file by a caller who supplied a
\* filename option; the engine got the path.
C10_Witness ==
    /\ last.op = "EvalFile"
    /\ last.callerFile = "u.js"
    /\ last.evaluated
    /\ last.filename = last.path

(***************************************************************************)
(* Claims about the reverse-call bridge (checked under SpecBridge)         *)
(***************************************************************************)
\* C2: a script call of the wrapper returned by registration i invokes
\* closure i exactly once within the call, with the call's this and
\* arguments and its own context, invokes no other closure, and the call's
\* result is the Value that closure returned.
C2_WrapperInvokesItsClosure ==
    lastCall.op = "call" =>
        LET i == lastCall.reg
        IN  /\ Len(lastCall.invoked) = 1
            /\ lastCall.invoked[1].closure = regs[i].fn
            /\ lastCall.invoked[1].ctx = regs[i].ctx
            /\ lastCall.invoked[1].this = lastCall.this
            /\ lastCall.invoked[1].args = lastCall.args
            /\ lastCall.result = lastCall.invoked[1].returned
            /\ lastCall.result.by = regs[i].fn

\* C2 witness: two closures are registered with Function and script calls the
\* second wrapper with an argument; the second closure's value comes back.
C2_Witness ==
    /\ Len(regs) = 2
    /\ \A r \in 1..2 : regs[r].kind = "Function" /\ ~regs[r].panicked
    /\ lastCall.op = "call" /\ lastCall.reg = 2 /\ lastCall.args = <<"a">>
    /\ lastCall.result = [by |-> 2, v |-> "v7"]

\* C8: each cached Value of a context (global object, sync shim, async shim)
\* is acquired from the engine at most once, every Globals call returns that
\* first reference, no operation releases a cached Value before Close, and
\* after Close each cached Value that was created has been released exactly
\* once and the others not at all.
C8_CachedValuesOwnedOnce ==
    /\ \A c \in Ctxs, s \in Slots :
          /\ acquired[c][s] <= 1
          /\ (cache[c][s] # NilRef) <=> (acquired[c][s] = 1)
          /\ ~closed[c] => freed[c][s] = 0
          /\ closed[c] => freed[c][s] = acquired[c][s]
    /\ lastCall.op = "Globals" =>
          /\ lastCall.ref = SlotRef(lastCall.ctx, "globals", 1)
          /\ lastCall.ref = cache[lastCall.ctx].globals

\* C8 witness: a context with all three cached Values created has been
\* closed, and each was released once.
C8_Witness ==
    \E c \in Ctxs :
        /\ closed[c]
        /\ \A s \in Slots : acquired[c][s] = 1 /\ freed[c][s] = 1

\* The handles allocated for the registrations made so far.
RegHandles == {h \in handles : h.reg \in 1..Len(regs)}

\* C9: after n registrations and any Close calls the registry holds exactly
\* 2n handles from them, for each registration one of its closure and one of
\* its context, all tokens distinct; every wrapper's handle still resolves to
\* the closure it was allocated for.
C9_HandlesNeverFreed ==
    /\ Cardinality(RegHandles) = 2 * Len(regs)
    /\ \A r \in 1..Len(regs) :
          /\ Cardinality({h \in handles : h.reg = r /\ h.kind \in {"fn", "asyncFn"}
                                          /\ h.obj = regs[r].fn}) = 1
          /\ Cardinality({h \in handles : h.reg = r /\ h.kind = "ctx"
                                          /\ h.obj = regs[r].ctx}) = 1
          /\ ~regs[r].panicked =>
                /\ \A h \in HandleValue(handles, JS_ToInt64(regs[r].wrapper.fnHandler)) :
                      h.obj = regs[r].fn /\ h.kind \in {"fn", "asyncFn"}
                /\ HandleValue(handles, JS_ToInt64(regs[r].wrapper.fnHandler)) # {}
                /\ \A h \in HandleValue(handles, JS_ToInt64(regs[r].wrapper.ctx)) :
                      h.obj = regs[r].ctx /\ h.kind = "ctx"
                /\ HandleValue(handles, JS_ToInt64(regs[r].wrapper.ctx)) # {}
    /\ \A h1, h2 \in handles : h1.token = h2.token => h1 = h2

\* C9 witness: two registrations on one context, which was then closed; the
\* four handles are still in the registry.
C9_Witness ==
    /\ Len(regs) = 2
    /\ regs[1].ctx = regs[2].ctx
    /\ closed[regs[1].ctx]
    /\ Cardinality(handles) = 4

(***************************************************************************)
(* Claims about async wrappers (checked under SpecAsync)                   *)
(***************************************************************************)
\* A job of call k is still in the queue.
Queued(k) == \E j \in 1..Len(jobs) : jobs[j].call = k

\* The awaiting expression of call k has settled with the outcome of the
\* first resolve / reject call made on the promise.
SettledAsFirst(k) ==
    /\ acalls[k].awaiter = acalls[k].firstHow
    /\ acalls[k].awaiterVal = acalls[k].firstVal

\* C3 as stated: for every closure, the expression awaiting an async wrapper
\* call is unsettled until the closure has called resolve or reject and jobs
\* were run by Loop or Await after that; once both have happened (and no job
\* of the call is left) it is settled with the value passed; and the call
\* itself returns control to the host.
C3_UnsettledUntilSettledAndDrained ==
    /\ \A k \in 1..Len(acalls) :
          /\ acalls[k].awaiter # "pending" =>
                (acalls[k].settleCalled /\ acalls[k].drainedAfterSettle /\ SettledAsFirst(k))
          /\ (acalls[k].settleCalled /\ acalls[k].drainedAfterSettle /\ ~Queued(k)) =>
                SettledAsFirst(k)
    /\ lastCall.op = "callAsync" => ~hung

\* C3 amended: the same for every call whose closure returned a
\* non-exception Value; when the closure returned an exception Value the
\* awaiting expression throws that exception once jobs are run after the
\* call, whether or not resolve or reject was called; in both cases the
\* expression is unsettled before jobs are run after the call.
C3_UnsettledUntilDrained ==
    /\ \A k \in 1..Len(acalls) :
          /\ acalls[k].awaiter # "pending" => acalls[k].drained
          /\ ~acalls[k].threw =>
                /\ acalls[k].awaiter # "pending" =>
                      (acalls[k].settleCalled /\ acalls[k].drainedAfterSettle
                       /\ SettledAsFirst(k))
                /\ (acalls[k].settleCalled /\ acalls[k].drainedAfterSettle /\ ~Queued(k)) =>
                      SettledAsFirst(k)
          /\ acalls[k].threw =>
                /\ acalls[k].awaiter # "pending" =>
                      (acalls[k].awaiter = "rejected" /\ acalls[k].awaiterVal = ThrownVal)
                /\ (acalls[k].drained /\ ~Queued(k)) => acalls[k].awaiter = "rejected"
    /\ lastCall.op = "callAsync" => ~hung

\* C3 witness: a closure that returned normally without settling, a later
\* resolve("v9") by the host, and a drain after it: the awaiting expression
\* is fulfilled with "v9".
C3_Witness ==
    \E k \in 1..Len(acalls) :
        /\ ~acalls[k].threw
        /\ acalls[k].settleCalled /\ acalls[k].drainedAfterSettle
        /\ acalls[k].awaiter = "fulfilled" /\ acalls[k].awaiterVal = "v9"

(***************************************************************************)
(* Claims about the interrupt hook (checked under SpecInterrupt)           *)
(***************************************************************************)
\* The handler registered with the runtime is the one passed to the most
\* recent SetInterruptHandler call, and it is the only one registered.
LatestHandlerRegistered ==
    lastSet # NoSet =>
        /\ rtHandler # 0
        /\ \A h \in HandleValue(handles, rtHandler) :
              h.kind = "interrupt" /\ h.obj = lastSet.handler
        /\ Cardinality(HandleValue(handles, rtHandler)) = 1

\* An Eval interrupted by a handler other than the latest never happens.
InterruptedByLatest ==
    run.state = "interrupted" => run.by = lastSet.handler

\* C6: after any SetInterruptHandler calls on contexts of the runtime, the
\* handler registered with the runtime is the one of the most recent call;
\* and when that handler answers non-zero to a poll during a running Eval
\* (also of a script that loops forever), that Eval returns with a non-nil
\* error.
C6_LatestHandlerInterruptsEval ==
    /\ [](LatestHandlerRegistered /\ InterruptedByLatest)
    /\ [](run.state = "interrupted" =>
            <>(run.state = "returned" /\ run.by # 0 /\ run.err # NilErr
               /\ IsException(run.ret)))

\* C6 witness: after a second SetInterruptHandler call, made on the other
\* context, a looping Eval was interrupted by the second handler and
\* returned an error.
C6_Witness ==
    /\ Sets >= 2
    /\ run.state = "returned" /\ run.loops
    /\ run.by = lastSet.handler /\ run.by >= 2
    /\ run.ctx # lastSet.ctx
    /\ run.err = ExcErr("InternalError")

====
